---- MODULE Spec2Model ----
(***************************************************************************)
(* A model of pdf_generator.py: the interactive controller (main), the     *)
(* prompt loop (get_choice), the template renderer (render_template and    *)
(* its two strategies) and the PDF emitter (generate_pdf).                 *)
(*                                                                         *)
(* Text (what the user types, a cell of the table, the formatted total) is *)
(* a sequence of one-character strings, so that int(), float() and the     *)
(* ".2f" format are computed character by character.  A float is a record  *)
(* [nan, cents]: every number of the model has at most two decimals and    *)
(* the sums stay far below 2^53 cents, where binary floating point and     *)
(* exact arithmetic print the same two decimals.                           *)
(***************************************************************************)
EXTENDS Integers, Sequences, FiniteSets, TLC

\* ------------------------------------------------------------------ bounds

\* The longest table load_csv_data may return, in rows.
MaxRows == 2

\* ------------------------------------------------------- program constants

\* sys.exit(0) of the two KeyboardInterrupt handlers.
CancelExitCode == 0
\* sys.exit(1) of the top-level "except Exception" and of the fatal checks.
FailExitCode == 1
\* The interpreter's exit status when main() returns.
NormalExitCode == 0
\* get_choice's lower bound, and the bound of the mode menu.
MinChoice == 1
ModeCount == 2

\* --------------------------------------------------------------- floats

Num(c) == [nan |-> FALSE, cents |-> c]
NaN == [nan |-> TRUE, cents |-> 0]

\* IEEE comparison: every comparison with NaN is false.
FloatEq(a, b) == ~a.nan /\ ~b.nan /\ a.cents = b.cents
FloatLt(a, b) == ~a.nan /\ ~b.nan /\ a.cents < b.cents
\* IEEE addition: NaN is absorbing.
FloatAdd(a, b) == IF a.nan \/ b.nan THEN NaN ELSE Num(a.cents + b.cents)

\* ---------------------------------------------------------------- text

DigitVal == ("0" :> 0) @@ ("1" :> 1) @@ ("2" :> 2) @@ ("3" :> 3) @@ ("4" :> 4)
            @@ ("5" :> 5) @@ ("6" :> 6) @@ ("7" :> 7) @@ ("8" :> 8) @@ ("9" :> 9)
DigitChar == <<"0", "1", "2", "3", "4", "5", "6", "7", "8", "9">>
IsDigit(c) == c \in DOMAIN DigitVal
AllDigits(s) == \A i \in 1..Len(s) : IsDigit(s[i])

RECURSIVE LStrip(_)
LStrip(s) == IF s # <<>> /\ Head(s) = " " THEN LStrip(Tail(s)) ELSE s
RECURSIVE RStrip(_)
RStrip(s) == IF s # <<>> /\ s[Len(s)] = " " THEN RStrip(SubSeq(s, 1, Len(s) - 1)) ELSE s
Strip(s) == RStrip(LStrip(s))

RECURSIVE DigitsValue(_)
DigitsValue(s) == IF s = <<>> THEN 0
                  ELSE 10 * DigitsValue(SubSeq(s, 1, Len(s) - 1)) + DigitVal[s[Len(s)]]

Unsigned(s) == IF s # <<>> /\ Head(s) \in {"+", "-"} THEN Tail(s) ELSE s
SignOf(s) == IF s # <<>> /\ Head(s) = "-" THEN -1 ELSE 1

\* int(text): surrounding blanks are dropped, one sign is allowed, then digits
\* only; anything else is a ValueError.
ParseInt(s) ==
    LET t == Strip(s)
        d == Unsigned(t)
    IN  IF d # <<>> /\ AllDigits(d)
        THEN [ok |-> TRUE, v |-> SignOf(t) * DigitsValue(d)]
        ELSE [ok |-> FALSE, v |-> 0]

\* The text of a missing cell: pandas.read_csv gives the float NaN for it.
NanText == <<"n", "a", "n">>

DotAt(s) == IF \E i \in 1..Len(s) : s[i] = "." THEN CHOOSE i \in 1..Len(s) : s[i] = "." ELSE 0

\* float(cell): a NaN cell is NaN without any error; a string is stripped,
\* may carry a sign, and is digits with at most one point (here at most two
\* fraction digits, which is all TotalPool holds); anything else is a
\* ValueError.
ParseFloat(s) ==
    LET t == Strip(s)
        d == Unsigned(t)
        k == DotAt(d)
        ip == IF k = 0 THEN d ELSE SubSeq(d, 1, k - 1)
        fp == IF k = 0 THEN <<>> ELSE SubSeq(d, k + 1, Len(d))
        frac == IF Len(fp) = 0 THEN 0
                ELSE IF Len(fp) = 1 THEN 10 * DigitsValue(fp) ELSE DigitsValue(fp)
    IN  IF t = NanText THEN [ok |-> TRUE, v |-> NaN]
        ELSE IF (ip # <<>> \/ fp # <<>>) /\ AllDigits(ip) /\ AllDigits(fp) /\ Len(fp) <= 2
        THEN [ok |-> TRUE, v |-> Num(SignOf(t) * (100 * DigitsValue(ip) + frac))]
        ELSE [ok |-> FALSE, v |-> Num(0)]

RECURSIVE NatText(_)
NatText(n) == IF n < 10 THEN <<DigitChar[n + 1]>>
              ELSE NatText(n \div 10) \o <<DigitChar[(n % 10) + 1]>>

\* f"{x:.2f}": sign, integer part, a point and exactly two digits; "nan" for NaN.
Format2f(x) ==
    IF x.nan THEN NanText
    ELSE LET a == IF x.cents < 0 THEN -x.cents ELSE x.cents
         IN  (IF x.cents < 0 THEN <<"-">> ELSE <<>>)
             \o NatText(a \div 100) \o <<".">>
             \o <<DigitChar[((a % 100) \div 10) + 1], DigitChar[(a % 10) + 1]>>

\* ------------------------------------------------------------ the table

ActHeaderCols == {"act_number", "act_date", "contract_number", "object_address",
                  "client", "contractor"}
ItemCols == {"work_name", "quantity", "unit", "unit_price", "total"}
CertCols == {"student_name", "course_name", "cert_date"}
AllCols == {"id"} \cup ActHeaderCols \cup ItemCols \cup CertCols

\* The totals a cell may hold: two numbers, a text float() rejects, a missing cell.
TotalPool == {<<"2", "0">>, <<"5", ".", "5">>, <<"a", "b", "c">>, NanText}
\* The identifiers a cell may hold; NaN is the identifier of a missing cell.
IdPool == {Num(100), Num(200), NaN}

\* A row of a file that has every column: the header cells depend on the
\* identifier, the item cells on the total.
FullRow(id, tot) ==
    [c \in AllCols |->
        IF c = "id" THEN id
        ELSE IF c = "total" THEN tot
        ELSE IF c \in ItemCols THEN <<c, tot>>
        ELSE <<c, id>>]

RowPool == {FullRow(Num(100), t) : t \in TotalPool}
           \cup {FullRow(Num(200), <<"2", "0">>), FullRow(NaN, <<"2", "0">>)}

\* A file either has every column or lacks one of these.
DroppableCols == {"id", "total", "cert_date"}
ColumnSets == {AllCols} \cup {AllCols \ {c} : c \in DroppableCols}

Project(row, cols) == [c \in cols |-> row[c]]

SeqsUpTo(S, n) == UNION {[1..k -> S] : k \in 0..n}

\* What pd.read_csv may return: a DataFrame is its columns and its rows in file order.
Tables == {[cols |-> cs, rows |-> [i \in DOMAIN rs |-> Project(rs[i], cs)]] :
              cs \in ColumnSets, rs \in SeqsUpTo(RowPool, MaxRows)}

NoTable == [cols |-> {}, rows |-> <<>>]

\* data_df[data_df['id'] == selected_id]: the rows whose id equals the
\* requested one, in table order.
FilterById(df, selected_id) ==
    SelectSeq(df.rows, LAMBDA r : FloatEq(r["id"], selected_id))

\* data_df['id'].unique(): the distinct ids in order of first appearance;
\* pandas keeps one NaN for all missing ids.
SameId(a, b) == (a.nan /\ b.nan) \/ FloatEq(a, b)
RECURSIVE UniqueFrom(_, _)
UniqueFrom(rows, seen) ==
    IF rows = <<>> THEN seen
    ELSE LET x == Head(rows)["id"]
         IN  UniqueFrom(Tail(rows),
                        IF \E i \in 1..Len(seen) : SameId(seen[i], x) THEN seen
                        ELSE Append(seen, x))
Unique(df) == UniqueFrom(df.rows, <<>>)

PermsOf(s) == {p \in [1..Len(s) -> 1..Len(s)] : \A i, j \in 1..Len(s) : i # j => p[i] # p[j]}

\* sorted(ids): ascending when every pair compares; with a NaN among them "<"
\* is not an order and list.sort promises no particular result, so every
\* arrangement is possible.
SortedResults(s) ==
    IF \E i \in 1..Len(s) : s[i].nan
    THEN {[i \in 1..Len(s) |-> s[p[i]]] : p \in PermsOf(s)}
    ELSE {[i \in 1..Len(s) |-> s[p[i]]] : p \in
             {q \in PermsOf(s) : \A i, j \in 1..Len(s) : i < j => FloatLt(s[q[i]], s[q[j]])}}

\* ------------------------------------------------------------- rendering

NoHtml == [kind |-> "none", fields |-> <<>>, positions_rows |-> <<>>, total_amount |-> <<>>]

Has(row, f) == f \in DOMAIN row

\* The numbering of enumerate() without its start argument.
ItemRow_from_zero(idx, row) ==
    [idx |-> idx - 1, work_name |-> row["work_name"], quantity |-> row["quantity"],
     unit |-> row["unit"], unit_price |-> row["unit_price"], total |-> row["total"]]

\* One <tr> of the act: the running number and five cells of the row.
ItemRow(idx, row) ==
    [idx |-> idx, work_name |-> row["work_name"], quantity |-> row["quantity"],
     unit |-> row["unit"], unit_price |-> row["unit_price"], total |-> row["total"]]

\* The body of the try block for one row: the amount it adds to total_amount.
\* A missing attribute and a ValueError both end in the bare "except:",
\* which adds nothing.
RowAmount(row) ==
    IF ~Has(row, "total") THEN Num(0)
    ELSE LET p == ParseFloat(row["total"])
         IN  IF p.ok THEN p.v ELSE Num(0)

\* The for loop of render_act_template from row i on: acc is
\* [rows, total, raised]; the f-string reads five attributes of the row
\* outside the try block, so a missing one raises AttributeError.
RECURSIVE ActLoop(_, _, _)
ActLoop(df, i, acc) ==
    IF i > Len(df) \/ acc.raised THEN acc
    ELSE LET row == df[i]
             total == FloatAdd(acc.total, RowAmount(row))
         IN  IF \A f \in ItemCols : Has(row, f)
             THEN ActLoop(df, i + 1,
                          [rows |-> Append(acc.rows, ItemRow(i, row)),
                           total |-> total, raised |-> FALSE])
             ELSE [rows |-> acc.rows, total |-> total, raised |-> TRUE]

\* render_act_template(template_html, positions_df)
render_act_template(template_html, positions_df) ==
    IF Len(positions_df) = 0
    THEN [res |-> "none", err |-> "NoDataForAct", html |-> NoHtml]
    ELSE LET first_row == positions_df[1]
             acc == ActLoop(positions_df, 1,
                            [rows |-> <<>>, total |-> Num(0), raised |-> FALSE])
         IN  IF acc.raised \/ ~(\A f \in ActHeaderCols : Has(first_row, f))
             THEN [res |-> "raise", err |-> "AttributeError", html |-> NoHtml]
             ELSE [res |-> "ok", err |-> "",
                   html |-> [kind |-> "act",
                             fields |-> [f \in ActHeaderCols |-> first_row[f]],
                             positions_rows |-> acc.rows,
                             total_amount |-> Format2f(acc.total)]]

\* render_certificate_template(template_html, data_row)
render_certificate_template(template_html, data_row) ==
    IF ~(\A f \in CertCols : Has(data_row, f))
    THEN [res |-> "raise", err |-> "AttributeError", html |-> NoHtml]
    ELSE [res |-> "ok", err |-> "",
          html |-> [kind |-> "certificate",
                    fields |-> [f \in CertCols |-> data_row[f]],
                    positions_rows |-> <<>>, total_amount |-> <<>>]]

\* A dispatch whose last branch renders any other template as a certificate.
render_template_fallback(template_path, template_html, data_df, selected_id) ==
    LET filtered_df == FilterById(data_df, selected_id)
    IN  IF Len(filtered_df) = 0
        THEN [res |-> "none", err |-> "NoDataForId", html |-> NoHtml]
        ELSE IF template_path = "act"
        THEN render_act_template(template_html, filtered_df)
        ELSE render_certificate_template(template_html, filtered_df[1])

\* render_template(template_path, template_html, data_df, selected_id);
\* template_path is the template's stem.
render_template(template_path, template_html, data_df, selected_id) ==
    LET filtered_df == FilterById(data_df, selected_id)
    IN  IF Len(filtered_df) = 0
        THEN [res |-> "none", err |-> "NoDataForId", html |-> NoHtml]
        ELSE IF template_path = "act"
        THEN render_act_template(template_html, filtered_df)
        ELSE IF template_path = "certificate"
        THEN render_certificate_template(template_html, filtered_df[1])
        ELSE [res |-> "none", err |-> "UnknownTemplateType", html |-> NoHtml]


\* ------------------------------------------------------------ the emitter

Backends == {"weasyprint", "xhtml2pdf", "none"}
\* What one call of the backend may do: succeed, fail to open the
\* destination, or fail while converting.
EmitOutcomes == {"ok", "open_err", "backend_err"}

\* f"{template.stem}_{csv.stem}_id{selected_id}.pdf" under OUTPUT_DIR
OutputPath(template_stem, csv_stem, selected_id) == <<template_stem, csv_stem, selected_id>>

\* generate_pdf(html_content, output_path) on the disk d: [ok, disk].
\* WeasyPrint is one library call, taken to write the file only when it
\* succeeds.  With xhtml2pdf the script itself opens the destination for
\* writing (which creates or truncates it) before the conversion runs, so a
\* conversion that fails leaves a partial file behind.
generate_pdf(d, use, html_content, output_path, outcome) ==
    IF use = "weasyprint"
    THEN IF outcome = "ok"
         THEN [ok |-> TRUE, disk |-> [d EXCEPT ![output_path] = "pdf"]]
         ELSE [ok |-> FALSE, disk |-> d]
    ELSE IF use = "xhtml2pdf"
    THEN IF outcome = "open_err" THEN [ok |-> FALSE, disk |-> d]
         ELSE IF outcome = "backend_err"
         THEN [ok |-> FALSE, disk |-> [d EXCEPT ![output_path] = "partial"]]
         ELSE [ok |-> TRUE, disk |-> [d EXCEPT ![output_path] = "pdf"]]
    ELSE [ok |-> FALSE, disk |-> d]

\* What launching the viewer may do: open it, raise (caught and logged by
\* open_pdf), or return a non-zero status from os.system (ignored).
ViewerOutcomes == {"opened", "raised", "nonzero"}

\* ------------------------------------------------------------ the prompt

\* What the user may type at a prompt.
Typed == {<<"1">>, <<"2">>, <<"3">>, <<"0">>, <<" ", "2">>, <<"x">>}

\* The bounds check written "choice_num <= max_value", with no lower bound.
get_choice_no_lower(typed, max_value) ==
    LET p == ParseInt(typed)
    IN  [accepted |-> p.ok /\ p.v <= max_value, choice_num |-> p.v]

\* The bounds check written "0 <= choice_num <= max_value".
get_choice_from_zero(typed, max_value) ==
    LET p == ParseInt(typed)
    IN  [accepted |-> p.ok /\ 0 <= p.v /\ p.v <= max_value, choice_num |-> p.v]

\* One pass of get_choice's loop over the line typed: accepted with its number, or not.
get_choice(typed, max_value) ==
    LET p == ParseInt(typed)
    IN  [accepted |-> p.ok /\ MinChoice <= p.v /\ p.v <= max_value, choice_num |-> p.v]

\* ---------------------------------------------------------------- state

VARIABLES
    pc,                 \* where main() is
    exit_reason,        \* "running", "normal", "cancelled" or "failed"
    exit_code,          \* the process's exit status once pc = "Exit" (-1 before)
    backend,            \* USE_WEASYPRINT / USE_XHTML2PDF after the imports
    html_templates,     \* the stems of templates/*.html
    csv_files,          \* the stems of data/*.csv
    disk,               \* the output directory: path -> "absent", "old", "partial", "pdf"
    selected_template,
    selected_csv,
    data_df,
    mode_choice,
    unique_ids,
    idx,                \* the batch loop's position in unique_ids
    created_files,
    errors,
    last_input,         \* get_choice's local "choice": the line it last rejected
    choice_num,         \* the number get_choice last returned
    events,             \* the calls made so far: render, emit, open, in order
    rendered_html       \* the last document render_template returned

vars == <<pc, exit_reason, exit_code, backend, html_templates, csv_files, disk,
          selected_template, selected_csv, data_df, mode_choice, unique_ids, idx,
          created_files, errors, last_input, choice_num, events, rendered_html>>

env == <<backend, html_templates, csv_files>>

Prompts == {"SelectTemplate", "SelectData", "SelectMode", "SelectId"}

TemplateListing == <<"act", "certificate", "letter">>
CsvListing == <<"works">>

AllPaths == {OutputPath(t, c, i) : t \in {"act", "certificate", "letter"},
                                   c \in {"works"}, i \in IdPool}

\* The output directory before the run: the documents of id 1.0 are left
\* from an earlier run, the others do not exist.
InitialDisk == [p \in AllPaths |-> IF FloatEq(p[3], Num(100)) THEN "old" ELSE "absent"]

\* The bound of the prompt main() is at.
PromptMax ==
    IF pc = "SelectTemplate" THEN Len(html_templates)
    ELSE IF pc = "SelectData" THEN Len(csv_files)
    ELSE IF pc = "SelectMode" THEN ModeCount
    ELSE Len(unique_ids)

\* list[k] of Python for a 0-based k: a negative k counts from the end, and
\* an index outside the list is an IndexError.
InRange(list, k) == -Len(list) <= k /\ k < Len(list)
ListAt(list, k) == IF k < 0 THEN list[Len(list) + k + 1] ELSE list[k + 1]

\* The memory of a process that has not started main()'s work, or has ended.
NoMemory ==
    /\ selected_template' = ""
    /\ selected_csv' = ""
    /\ data_df' = NoTable
    /\ mode_choice' = 0
    /\ unique_ids' = <<>>
    /\ idx' = 0
    /\ created_files' = <<>>
    /\ errors' = <<>>
    /\ last_input' = <<>>
    /\ choice_num' = 0
    /\ rendered_html' = NoHtml

\* The process ends: its exit status is set and its memory is gone; the
\* disk and what has happened stay.
Terminate(reason, code) ==
    /\ pc' = "Exit"
    /\ exit_reason' = reason
    /\ exit_code' = code
    /\ NoMemory
    /\ UNCHANGED <<env, disk>>

\* The module's import block and main() up to the first prompt: no
\* backend, or no template, ends the process with sys.exit(1).
Init ==
    /\ backend \in Backends
    /\ html_templates \in {<<>>, TemplateListing}
    /\ csv_files \in {<<>>, CsvListing}
    /\ disk = InitialDisk
    /\ IF backend = "none" \/ html_templates = <<>>
       THEN pc = "Exit" /\ exit_reason = "failed" /\ exit_code = FailExitCode
       ELSE pc = "SelectTemplate" /\ exit_reason = "running" /\ exit_code = -1
    /\ selected_template = ""
    /\ selected_csv = ""
    /\ data_df = NoTable
    /\ mode_choice = 0
    /\ unique_ids = <<>>
    /\ idx = 0
    /\ created_files = <<>>
    /\ errors = <<>>
    /\ last_input = <<>>
    /\ choice_num = 0
    /\ events = <<>>
    /\ rendered_html = NoHtml


\* get_choice rejects the line (ValueError, or out of 1..max_value),
\* prints the complaint and asks again.
Reprompt ==
    /\ pc \in Prompts
    /\ \E typed \in Typed :
          /\ ~get_choice(typed, PromptMax).accepted
          /\ last_input' = typed
    /\ UNCHANGED <<pc, exit_reason, exit_code, env, disk, selected_template, selected_csv,
                   data_df, mode_choice, unique_ids, idx, created_files, errors,
                   choice_num, events, rendered_html>>

\* input() meets the end of stdin: EOFError is neither of get_choice's two
\* handlers, so it reaches the top-level "except Exception".
EndOfInput ==
    /\ pc \in Prompts
    /\ Terminate("failed", FailExitCode)
    /\ UNCHANGED events

\* KeyboardInterrupt between two steps: inside input() it reaches
\* get_choice's handler, elsewhere the top-level one; both sys.exit(0).
Interrupt ==
    /\ pc # "Exit"
    /\ Terminate("cancelled", CancelExitCode)
    /\ UNCHANGED events

\* Step 1 of main(): the template is chosen and read, the data files listed.
ChooseTemplate ==
    /\ pc = "SelectTemplate"
    /\ \E typed \in Typed, readable \in BOOLEAN :
          \E c \in {get_choice(typed, Len(html_templates))} :
              /\ c.accepted
              /\ IF ~InRange(html_templates, c.choice_num - 1)
                 THEN Terminate("failed", FailExitCode)
                 ELSE IF ~readable THEN Terminate("normal", NormalExitCode)
                 ELSE IF csv_files = <<>> THEN Terminate("failed", FailExitCode)
                 ELSE /\ pc' = "SelectData"
                      /\ selected_template' = ListAt(html_templates, c.choice_num - 1)
                      /\ choice_num' = c.choice_num
                      /\ last_input' = <<>>
                      /\ UNCHANGED <<exit_reason, exit_code, env, disk, selected_csv, data_df,
                                     mode_choice, unique_ids, idx, created_files, errors,
                                     rendered_html>>
    /\ UNCHANGED events

\* Step 2: the data file is chosen and loaded; load_csv_data returns None
\* on any error and main() returns.
ChooseData ==
    /\ pc = "SelectData"
    /\ \E typed \in Typed, loaded \in Tables \cup {NoTable} :
          \E c \in {get_choice(typed, Len(csv_files))} :
              /\ c.accepted
              /\ IF ~InRange(csv_files, c.choice_num - 1)
                 THEN Terminate("failed", FailExitCode)
                 ELSE IF loaded = NoTable THEN Terminate("normal", NormalExitCode)
                 ELSE /\ pc' = "SelectMode"
                      /\ selected_csv' = ListAt(csv_files, c.choice_num - 1)
                      /\ data_df' = loaded
                      /\ choice_num' = c.choice_num
                      /\ last_input' = <<>>
                      /\ UNCHANGED <<exit_reason, exit_code, env, disk, selected_template,
                                     mode_choice, unique_ids, idx, created_files, errors,
                                     rendered_html>>
    /\ UNCHANGED events

\* Step 3: the mode is chosen and the distinct ids are sorted; a table
\* without an id column raises KeyError.  Any mode but 1 is the batch.
ChooseMode ==
    /\ pc = "SelectMode"
    /\ \E typed \in Typed :
          \E c \in {get_choice(typed, ModeCount)} :
              /\ c.accepted
              /\ IF "id" \notin data_df.cols
                 THEN Terminate("failed", FailExitCode)
                 ELSE /\ unique_ids' \in SortedResults(Unique(data_df))
                      /\ mode_choice' = c.choice_num
                      /\ choice_num' = c.choice_num
                      /\ last_input' = <<>>
                      /\ IF c.choice_num = 1
                         THEN pc' = "SelectId" /\ UNCHANGED idx
                         ELSE pc' = "Batch" /\ idx' = 1
                      /\ UNCHANGED <<exit_reason, exit_code, env, disk, selected_template,
                                     selected_csv, data_df, created_files, errors,
                                     rendered_html>>
    /\ UNCHANGED events

\* A call main() made: which (render, emit, open), for which document (its
\* output path: template, data file, id), how it ended and what it printed.
Event(op, doc, res, err) == [op |-> op, doc |-> doc, res |-> res, err |-> err]

\* open_pdf(pdf_path): an exception of the launch is caught and logged; a
\* non-zero status of os.system is not looked at.
open_pdf(pdf_path, viewer) ==
    Event("open", pdf_path, viewer, IF viewer = "raised" THEN "ViewerLaunchError" ELSE "")

\* "if generate_pdf(...): open_pdf(...)" of mode 1: what follows the
\* emission, for each thing the viewer may do.
AfterEmit_always_open(ok, output_path, outcome) ==
    {<<Event("emit", output_path, IF ok THEN "ok" ELSE "fail", outcome),
       open_pdf(output_path, viewer)>> : viewer \in ViewerOutcomes}

AfterEmit(ok, output_path, outcome) ==
    IF ok
    THEN {<<Event("emit", output_path, "ok", outcome), open_pdf(output_path, viewer)>> :
             viewer \in ViewerOutcomes}
    ELSE {<<Event("emit", output_path, "fail", outcome)>>}

\* Step 4, mode 1: the id is chosen, its document rendered and emitted and
\* the viewer launched (c, selected_id and r are each computed once, as the
\* script's local variables are).  render_template returning None makes main() return;
\* an exception it raises reaches the top-level handler.
ChooseId ==
    /\ pc = "SelectId"
    /\ \E typed \in Typed :
          \E c \in {get_choice(typed, Len(unique_ids))} :
              /\ c.accepted
              /\ IF ~InRange(unique_ids, c.choice_num - 1)
                 THEN Terminate("failed", FailExitCode) /\ UNCHANGED events
                 ELSE \E selected_id \in {ListAt(unique_ids, c.choice_num - 1)} :
                      \E r \in {render_template(selected_template, selected_template,
                                                data_df, selected_id)} :
                      LET output_path == OutputPath(selected_template, selected_csv,
                                                    selected_id)
                          rendered == Event("render", output_path, r.res, r.err)
                      IN  IF r.res = "raise"
                          THEN /\ Terminate("failed", FailExitCode)
                               /\ events' = Append(events, rendered)
                          ELSE IF r.res = "none"
                          THEN /\ Terminate("normal", NormalExitCode)
                               /\ events' = Append(events, rendered)
                          ELSE /\ pc' = "Report"
                               /\ rendered_html' = r.html
                               /\ choice_num' = c.choice_num
                               /\ last_input' = <<>>
                               /\ UNCHANGED <<exit_reason, exit_code, env, selected_template,
                                              selected_csv, data_df, mode_choice, unique_ids,
                                              idx, created_files, errors>>
                               /\ \E outcome \in EmitOutcomes :
                                     LET g == generate_pdf(disk, backend, r.html,
                                                           output_path, outcome)
                                     IN  /\ disk' = g.disk
                                         /\ \E tail \in AfterEmit(g.ok, output_path, outcome) :
                                               events' = events \o <<rendered>> \o tail

\* Step 4, mode 2: one pass of the for loop over unique_ids.
BatchStep ==
    /\ pc = "Batch"
    /\ idx <= Len(unique_ids)
    /\ \E selected_id \in {unique_ids[idx]} :
       \E r \in {render_template(selected_template, selected_template, data_df,
                                 selected_id)} :
       LET output_path == OutputPath(selected_template, selected_csv, selected_id)
           rendered == Event("render", output_path, r.res, r.err)
       IN  IF r.res = "raise"
           THEN /\ Terminate("failed", FailExitCode)
                /\ events' = Append(events, rendered)
           ELSE /\ idx' = idx + 1
                /\ rendered_html' = r.html
                /\ UNCHANGED <<pc, exit_reason, exit_code, env, selected_template,
                               selected_csv, data_df, mode_choice, unique_ids,
                               last_input, choice_num>>
                /\ IF r.res = "none"
                   THEN /\ errors' = Append(errors, selected_id)
                        /\ events' = Append(events, rendered)
                        /\ UNCHANGED <<disk, created_files>>
                   ELSE \E outcome \in EmitOutcomes :
                           LET g == generate_pdf(disk, backend, r.html, output_path, outcome)
                           IN  /\ disk' = g.disk
                               /\ events' = events \o
                                    <<rendered,
                                      Event("emit", output_path,
                                            IF g.ok THEN "ok" ELSE "fail", outcome)>>
                               /\ IF g.ok
                                  THEN /\ created_files' = Append(created_files, output_path)
                                       /\ UNCHANGED errors
                                  ELSE /\ errors' = Append(errors, selected_id)
                                       /\ UNCHANGED created_files

\* The loop is over: the summary of created files and errors is printed.
BatchSummary ==
    /\ pc = "Batch"
    /\ idx > Len(unique_ids)
    /\ pc' = "Report"
    /\ UNCHANGED <<exit_reason, exit_code, env, disk, selected_template, selected_csv,
                   data_df, mode_choice, unique_ids, idx, created_files, errors,
                   last_input, choice_num, events, rendered_html>>

\* main() returns after its last print and the interpreter exits.
Finish ==
    /\ pc = "Report"
    /\ Terminate("normal", NormalExitCode)
    /\ UNCHANGED events

Next ==
    \/ Reprompt
    \/ EndOfInput
    \/ Interrupt
    \/ ChooseTemplate
    \/ ChooseData
    \/ ChooseMode
    \/ ChooseId
    \/ BatchStep
    \/ BatchSummary
    \/ Finish

Spec == Init /\ [][Next]_vars


\* ============================================================== properties

Range(f) == {f[i] : i \in DOMAIN f}
EventsOf(op) == SelectSeq(events, LAMBDA e : e.op = op)
DocId(e) == e.doc[3]
DocTemplate(e) == e.doc[1]
KnownTemplates == {"act", "certificate"}
\* The record group of the document render_template last returned.
LastGroup == FilterById(data_df, DocId(EventsOf("render")[Len(EventsOf("render"))]))
BatchReport == pc = "Report" /\ mode_choice = 2
\* The output files the run has created or changed.
Touched == {p \in AllPaths : disk[p] # InitialDisk[p]}

\* C1: the batch summary over K distinct ids of which M failed lists K-M
\* created files and M errors, every id in exactly one of the two lists, and
\* the run has put exactly K-M files on the disk.
C1_BatchCounts ==
    BatchReport =>
        LET K == Len(unique_ids)
            failed == {i \in 1..K : \E e \in Range(events) :
                          /\ DocId(e) = unique_ids[i]
                          /\ \/ e.op = "render" /\ e.res = "none"
                             \/ e.op = "emit" /\ e.res = "fail"}
            M == Cardinality(failed)
        IN  /\ Len(created_files) = K - M
            /\ Len(errors) = M
            /\ \A i \in 1..K :
                  (\E j \in 1..Len(errors) : errors[j] = unique_ids[i])
                  # (\E j \in 1..Len(created_files) : created_files[j][3] = unique_ids[i])
            /\ Cardinality(Touched) = K - M

\* One step of the run, as the batch is claimed to take it.
C2_BatchStep ==
    /\ pc = "Batch" /\ idx <= Len(unique_ids) /\ pc' = "Batch" =>
          /\ idx' = idx + 1
          /\ Len(EventsOf("render"))' = Len(EventsOf("render")) + 1
          /\ DocId(events'[Len(events) + 1]) = unique_ids[idx]
          /\ Len(created_files') + Len(errors') = idx
    /\ pc = "Batch" /\ pc' # "Batch" =>
          \/ pc' = "Report" /\ idx > Len(unique_ids)
          \/ exit_reason' = "cancelled"
    /\ pc' = "Batch" =>
          \A i, j \in 1..Len(unique_ids') :
             i < j /\ ~unique_ids'[i].nan /\ ~unique_ids'[j].nan
                => FloatLt(unique_ids'[i], unique_ids'[j])
\* C2: each pass of the batch loop attempts the next id of the sorted list
\* once; a failure of that id, of whatever kind, is recorded in the error
\* list and the loop goes on to the next id and, after the last one, to the
\* summary.  Only an interrupt ends the batch otherwise.
C2_BatchIsolation == [][C2_BatchStep]_vars

\* C3: a run ended by an interrupt has an exit code of its own, which is
\* neither the code of a normal completion nor the code of a failure.
C3_CancelCode ==
    exit_reason = "cancelled" =>
        /\ pc = "Exit"
        /\ exit_code # NormalExitCode
        /\ exit_code # FailExitCode

\* C4: a file of the output directory differs from what it was before the
\* run only if generate_pdf returned success for that path.
C4_WriteOnlyOnSuccess ==
    \A p \in Touched :
       /\ disk[p] = "pdf"
       /\ \E e \in Range(events) : e.op = "emit" /\ e.res = "ok" /\ e.doc = p

\* C5 as stated: every render with a template that is neither "act" nor
\* "certificate" fails with the unrecognized-template condition, and no PDF
\* is produced.
C5_AlwaysUnknownType ==
    \A e \in Range(events) :
       DocTemplate(e) \notin KnownTemplates =>
          /\ e.op = "render" /\ e.res = "none" /\ e.err = "UnknownTemplateType"
          /\ disk = InitialDisk

\* C5 amended: such a render always fails and no PDF is produced; the
\* condition is the unrecognized template type when the table has a row with
\* the requested id, and "no data for id" when it has none (the id NaN).
C5_UnknownFails ==
    \A e \in Range(events) :
       DocTemplate(e) \notin KnownTemplates =>
          /\ e.op = "render" /\ e.res = "none"
          /\ e.err = IF DocId(e).nan THEN "NoDataForId" ELSE "UnknownTemplateType"
          /\ disk = InitialDisk
          /\ created_files = <<>>

\* A batch with an unknown template met both conditions.
C5_Witness ==
    /\ BatchReport
    /\ selected_template \notin KnownTemplates
    /\ \E e \in Range(events) : e.err = "UnknownTemplateType"
    /\ \E e \in Range(events) : e.err = "NoDataForId"
    /\ Len(errors) = Len(unique_ids)

\* C6: the item table of a rendered act has one row per row of the group,
\* the i-th numbered i and carrying the cells of the group's i-th row.
C6_ItemTable ==
    rendered_html.kind = "act" =>
        LET g == LastGroup
            t == rendered_html.positions_rows
        IN  /\ Len(g) >= 1
            /\ Len(t) = Len(g)
            /\ \A i \in 1..Len(g) :
                  /\ t[i].idx = i
                  /\ t[i].work_name = g[i]["work_name"]
                  /\ t[i].quantity = g[i]["quantity"]
                  /\ t[i].unit = g[i]["unit"]
                  /\ t[i].unit_price = g[i]["unit_price"]
                  /\ t[i].total = g[i]["total"]

\* An act of two different rows, the first with a total float() rejects.
C6_Witness ==
    /\ rendered_html.kind = "act"
    /\ Len(rendered_html.positions_rows) = 2
    /\ ~ParseFloat(rendered_html.positions_rows[1].total).ok
    /\ ParseFloat(rendered_html.positions_rows[2].total).ok

\* What a total counts for in the claimed sum: its value in cents when it
\* is the text of a number, 0 when it is not.
ClaimedCents(cell) ==
    LET p == ParseFloat(cell)
    IN  IF p.ok /\ ~p.v.nan THEN p.v.cents ELSE 0
RECURSIVE ClaimedSum(_)
ClaimedSum(g) == IF g = <<>> THEN 0 ELSE ClaimedCents(Head(g)["total"]) + ClaimedSum(Tail(g))
TwoDecimals(t) ==
    /\ Len(t) >= 4
    /\ t[Len(t) - 2] = "."
    /\ IsDigit(t[Len(t) - 1]) /\ IsDigit(t[Len(t)])
    /\ AllDigits(Unsigned(SubSeq(t, 1, Len(t) - 3)))

\* C7: the grand total of a rendered act is the sum of the rows' totals,
\* a total that is no number counting 0, written with two decimals.
C7_GrandTotal ==
    rendered_html.kind = "act" =>
        /\ TwoDecimals(rendered_html.total_amount)
        /\ rendered_html.total_amount = Format2f(Num(ClaimedSum(LastGroup)))


\* The controller's states in the order main() passes them; the two modes
\* share a place.
Rank(p) ==
    IF p = "SelectTemplate" THEN 1
    ELSE IF p = "SelectData" THEN 2
    ELSE IF p = "SelectMode" THEN 3
    ELSE IF p \in {"SelectId", "Batch"} THEN 4
    ELSE IF p = "Report" THEN 5
    ELSE 6
\* The line typed is the numeral of n, blanks around it and a plus sign allowed.
Denotes(typed, n) == Strip(typed) = NatText(n) \/ Strip(typed) = <<"+">> \o NatText(n)

\* One step of the run, as the controller is claimed to take it.
C8_Step ==
    /\ pc' # pc =>
          /\ Rank(pc') > Rank(pc)
          /\ pc' \in {"Exit"} \cup
                (IF pc = "SelectTemplate" THEN {"SelectData"}
                 ELSE IF pc = "SelectData" THEN {"SelectMode"}
                 ELSE IF pc = "SelectMode" THEN {"SelectId", "Batch"}
                 ELSE IF pc \in {"SelectId", "Batch"} THEN {"Report"}
                 ELSE {})
    /\ pc \in Prompts /\ pc' \notin {pc, "Exit"} =>
          /\ choice_num' \in 1..PromptMax
          /\ last_input' = <<>>
    /\ pc \in Prompts /\ pc' = pc =>
          /\ ~(\E n \in 1..PromptMax : Denotes(last_input', n))
          /\ UNCHANGED <<exit_reason, exit_code, env, disk, selected_template, selected_csv,
                         data_df, mode_choice, unique_ids, idx, created_files, errors,
                         choice_num, events, rendered_html>>
\* C8: the controller only moves forward along SelectTemplate, SelectData,
\* SelectMode, SelectId or Batch, Report; it leaves a prompt for the next
\* state only with a number within 1..(length of the list), and a line that
\* is no such number repeats the prompt with nothing else changed.
C8_LinearController == [][C8_Step]_vars

\* Three prompts were passed and the fourth has just rejected "0".
C8_Witness ==
    /\ pc = "SelectId"
    /\ mode_choice = 1
    /\ Len(unique_ids) >= 1
    /\ last_input = <<"0">>

\* C9: in single mode one document is rendered and at most one emitted, for
\* the chosen id; the viewer is launched only right after a successful
\* emission of that document; a launch that raises is logged, and whatever
\* the launch does the run goes on to its report and a normal exit.
C9_SingleMode ==
    /\ \A i \in 1..Len(events) :
          events[i].op = "open" =>
             /\ i > 1
             /\ events[i - 1].op = "emit" /\ events[i - 1].res = "ok"
             /\ events[i - 1].doc = events[i].doc
             /\ disk[events[i].doc] = "pdf"
             /\ (events[i].res = "raised" => events[i].err = "ViewerLaunchError")
             /\ pc \in {"Report", "Exit"}
             /\ exit_reason \in {"running", "normal", "cancelled"}
             /\ exit_reason = "normal" => exit_code = NormalExitCode
    /\ mode_choice = 1 /\ pc = "SelectId" => events = <<>>
    /\ mode_choice = 1 /\ pc = "Report" =>
          /\ Len(EventsOf("render")) = 1
          /\ Len(EventsOf("emit")) = 1
          /\ Len(EventsOf("open")) <= 1
          /\ \A e \in Range(events) : DocId(e) = unique_ids[choice_num]

\* A run whose viewer launch raised has completed normally.
C9_Witness ==
    /\ pc = "Exit"
    /\ exit_reason = "normal"
    /\ exit_code = NormalExitCode
    /\ \E e \in Range(events) : e.op = "open" /\ e.res = "raised"

EmptyIdPrompt == pc = "SelectId" /\ unique_ids = <<>>

\* C10 as stated: with no ids the id prompt is left only by an interrupt.
C10_OnlyInterrupt == [][EmptyIdPrompt /\ pc' # pc => exit_reason' = "cancelled"]_vars

\* One step of a run over a table without rows.
C10_Step ==
    /\ EmptyIdPrompt =>
          /\ ~ENABLED ChooseId
          /\ pc' \in {"SelectId", "Exit"}
          /\ pc' = "Exit" => exit_reason' \in {"cancelled", "failed"}
          /\ events' = <<>>
    /\ pc' = "Report" /\ mode_choice' = 2 /\ unique_ids' = <<>> =>
          /\ created_files' = <<>>
          /\ errors' = <<>>
          /\ events' = <<>>
\* C10 amended: with no ids the id prompt accepts no line, nothing is ever
\* rendered and the prompt is left only by an interrupt or by the end of the
\* input, which ends the run with the failure code; the batch over the same
\* table reaches its summary with no created file and no error.
C10_EmptyTable == [][C10_Step]_vars

\* The prompt over no ids has rejected "1".
C10_Witness == EmptyIdPrompt /\ last_input = <<"1">> /\ data_df.rows = <<>>


====
